---- MODULE Spec2Model ----
(***************************************************************************)
(* Tool validation and resolution of cxx-xtask (src/validation.rs) and the *)
(* task commands that consume it (src/command/*.rs).                       *)
(*                                                                         *)
(* Text is modelled by TLA+ strings, maps (HashMap, BTreeMap) by functions *)
(* on their key sets, BoxResult by the records Ok(v) / Err(message), and   *)
(* every subprocess the program spawns is appended to the log 'spawned'.   *)
(***************************************************************************)
EXTENDS Integers, Sequences, FiniteSets, TLC

VARIABLES
    cfg,             \* the loaded Config (read-only after load)
    target_os,       \* the operating system the binary was built for
    procEnv,         \* the process-wide environment of the xtask process
    call,            \* the entry point being executed and its arguments
    input,           \* the arguments of a function that is applied on its own
    pc,              \* position of the single thread of control
    tool,            \* 'tool' argument of validate_tool
    chainTool,       \* 'tool' argument of the running validate_clang_tool
    matcher,         \* compiled matcher of the running validate_clang_tool
    world,           \* what each candidate binary does when it is invoked
    validation,      \* 'validation' accumulator of validate_tool
    retry,           \* 'retry' argument of the running validate_xtask_bin
    tried,           \* results of try_validate_clang_tool, in call order
    spawned,         \* every subprocess spawned so far, in order
    fetched,         \* every auxiliary script fetched so far, in order
    checked,         \* what each check of the auxiliary script did, in order
    clangResult,     \* what the latest validate_clang_tool returned
    toolchainResult, \* what validate_rust_toolchain returned
    toolResult,      \* what validate_tool returned
    result           \* what the entry point returned

vars == <<cfg, target_os, procEnv, call, input, pc, tool, chainTool, matcher, world,
          validation, retry, tried, spawned, fetched, checked, clangResult, toolchainResult,
          toolResult, result>>

---------------------------------------------------------------------------
(* Option, Result and map values *)

None == [some |-> FALSE, val |-> ""]
Some(v) == [some |-> TRUE, val |-> v]

Unit == <<>>
Pending == [done |-> FALSE, ok |-> FALSE, val |-> Unit, err |-> ""]
Ok(v) == [done |-> TRUE, ok |-> TRUE, val |-> v, err |-> ""]
Err(m) == [done |-> TRUE, ok |-> FALSE, val |-> Unit, err |-> m]

EmptyMap == <<>>

\* HashMap::extend / BTreeMap::extend: insert every entry of 'other'
\* variant: the receiver's value is kept on a shared key
Extend_KeepsOld(self, other) ==
    [k \in DOMAIN self \cup DOMAIN other |->
        IF k \in DOMAIN self THEN self[k] ELSE other[k]]

Extend(self, other) ==
    [k \in DOMAIN self \cup DOMAIN other |->
        IF k \in DOMAIN other THEN other[k] ELSE self[k]]

ValidationDefault == [tools |-> EmptyMap, env_vars |-> EmptyMap]

Combine(self, other) ==
    [tools |-> Extend(self.tools, other.tools),
     env_vars |-> Extend(self.env_vars, other.env_vars)]

---------------------------------------------------------------------------
(* Text *)

\* variant: the whole text has to equal the prefix
StartsWith_Equal(s, prefix) == s = prefix

StartsWith(s, prefix) ==
    /\ Len(prefix) <= Len(s)
    /\ SubSeq(s, 1, Len(prefix)) = prefix

CharAt(s, i) == SubSeq(s, i, i)

\* the pieces of s between occurrences of the one-character separator sep
RECURSIVE SplitFrom(_, _, _, _)
SplitFrom(s, sep, start, i) ==
    IF i > Len(s) THEN <<SubSeq(s, start, Len(s))>>
    ELSE IF CharAt(s, i) = sep
         THEN <<SubSeq(s, start, i - 1)>> \o SplitFrom(s, sep, i + 1, i + 1)
         ELSE SplitFrom(s, sep, start, i + 1)

Split(s, sep) == SplitFrom(s, sep, 1, 1)

RECURSIVE Join(_, _)
Join(pieces, sep) ==
    IF Len(pieces) = 0 THEN ""
    ELSE IF Len(pieces) = 1 THEN pieces[1]
    ELSE pieces[1] \o sep \o Join(Tail(pieces), sep)

---------------------------------------------------------------------------
(* Search paths *)

AmbientDirs == {"/usr/bin", "/bin"}
HomebrewDir == "/opt/homebrew/bin"

\* Ord of PathBuf on the directories of the model: the iteration order of a
\* BTreeSet<PathBuf> holding them
PathOrder == <<"/bin", "/opt/homebrew/bin", "/usr/bin">>

BTreeSetIter(set) == SelectSeq(PathOrder, LAMBDA p : p \in set)

Range(seq) == {seq[i] : i \in 1..Len(seq)}

\* std::env::split_paths and std::env::join_paths with the separator ':'
SplitPaths(path) == Split(path, ":")
JoinPaths(paths) == Join(paths, ":")

\* std::env::var_os on the process environment
VarOs(env, key) == IF key \in DOMAIN env THEN Some(env[key]) ELSE None

\* crate::detection::detect_macos_clang_paths: the install locations of the
\* configured search-path strategies
DetectMacosClangPaths(config) ==
    Ok({HomebrewDir : kind \in
        {k \in Range(config.clang.platform.macos.search_paths) : k = "homebrew"}})

\* the PATH value of the "in search paths" blocks of validate_clang_tool
SearchPath(config, os, env) ==
    LET path == VarOs(env, "PATH")
        ambient == IF path.some THEN Range(SplitPaths(path.val)) ELSE {}
        detected == DetectMacosClangPaths(config)
        paths == IF os = "macos" THEN ambient \cup detected.val ELSE ambient
    IN  IF os = "macos" /\ ~detected.ok THEN Err(detected.err)
        ELSE Ok(JoinPaths(BTreeSetIter(paths)))

---------------------------------------------------------------------------
(* What a spawned program does *)

\* Command::output / Command::status: the spawn fails with an io::Error, or
\* the child runs and exits
IoError(kind) == [io |-> kind, success |-> FALSE, utf8 |-> TRUE, stdout |-> ""]
Exited(success, utf8, stdout) ==
    [io |-> "ok", success |-> success, utf8 |-> utf8, stdout |-> stdout]

NotFound == IoError("NotFound")
ExitNonZero == Exited(FALSE, TRUE, "")
ExitZero == Exited(TRUE, TRUE, "")

IoErrorMessage(out) == "io error: " \o out.io

\* what a candidate binary of the clang family may do when it is run
RunBehaviours ==
    {ExitNonZero,
     Exited(TRUE, FALSE, ""),
     Exited(TRUE, TRUE, "clang version 16.0.1"),
     Exited(TRUE, TRUE, "clang version 15.9.0")}

\* the PATH a child sees: the overlay's PATH if it has one, else the
\* inherited one
ChildPath(env, env_vars) ==
    IF "PATH" \in DOMAIN env_vars THEN Some(env_vars["PATH"]) ELSE VarOs(env, "PATH")

Elaborated(config, t) == t \o config.clang.suffix

\* most directories one binary name is installed in
MaxCopies == 1

InstallDirs == {"/bin", "/usr/bin", HomebrewDir}

\* the directories searched for a program when the child has no PATH
DefaultSearchDirs == <<"/bin", "/usr/bin">>

Absent == [dirs |-> {}, does |-> ExitNonZero]

\* the installations of the binaries a resolution of tool t may invoke: per
\* binary name, the directories it is installed in and what it does when run
Worlds(config, t) ==
    [{Elaborated(config, t), t} ->
        {Absent} \cup
        {[dirs |-> d, does |-> b] :
            d \in {x \in SUBSET InstallDirs : Cardinality(x) \in 1..MaxCopies},
            b \in RunBehaviours}]

NoWorld == <<>>

\* Command::new(program) spawned with the overlay env_vars: the program is
\* looked up in the directories of the child's PATH
Probe(w, env, program, env_vars) ==
    LET path == ChildPath(env, env_vars)
        dirs == IF path.some THEN SplitPaths(path.val) ELSE DefaultSearchDirs
    IN  IF \E i \in 1..Len(dirs) : dirs[i] \in w[program].dirs
        THEN w[program].does
        ELSE NotFound

---------------------------------------------------------------------------
(* Version matching *)

\* A configured matcher is modelled as the regex  lit([0-9.]+) : a literal
\* followed by one capture group over version characters; 'valid' is
\* whether regex::Regex::new accepts the pattern
VersionChars == {"0", "1", "2", "3", "4", "5", "6", "7", "8", "9", "."}

ClangVersionPattern == [valid |-> TRUE, lit |-> "version "]
InvalidPattern == [valid |-> FALSE, lit |-> "("]

RegexNew(pattern) ==
    IF pattern.valid THEN Ok(pattern) ELSE Err("regex parse error")

\* config.xtask.clang.matchers.get(tool).map(Regex::new).transpose()
CompileMatcher(config, t) ==
    IF t \in DOMAIN config.clang.matchers
    THEN LET re == RegexNew(config.clang.matchers[t])
         IN  IF re.ok THEN Ok(Some(re.val)) ELSE re
    ELSE Ok(None)

\* length of the longest run of version characters of haystack from position i
RECURSIVE RunLen(_, _)
RunLen(haystack, i) ==
    IF i <= Len(haystack) /\ CharAt(haystack, i) \in VersionChars
    THEN 1 + RunLen(haystack, i + 1)
    ELSE 0

\* Regex::captures(haystack) and captures.get(1): the text of the first
\* capture group of the leftmost match
Captures(re, haystack) ==
    LET n == Len(re.lit)
        starts == {i \in 1..Len(haystack) :
                      /\ i + n - 1 <= Len(haystack)
                      /\ SubSeq(haystack, i, i + n - 1) = re.lit
                      /\ RunLen(haystack, i + n) > 0}
    IN  IF starts = {} THEN None
        ELSE LET i == CHOOSE j \in starts : \A k \in starts : j <= k
             IN  Some(SubSeq(haystack, i + n, i + n + RunLen(haystack, i + n) - 1))

\* the diagnostic argument of a candidate's probe
ProbeArg(m) == IF m.some THEN "--version" ELSE "--help"

NonZeroExitMessage(t) == "'" \o t \o "' failed with non-zero exit code"
VersionMismatchMessage(config, t, actual) ==
    "'" \o t \o "' failed validation; expected version compatible with '"
        \o config.clang.version \o "' but found '" \o actual \o "'"
NotOfficialMessage(t) ==
    "'" \o t \o "' failed validation; ensure you are using the official clang toolchain"
FromUtf8ErrorMessage == "invalid utf-8 sequence"

\* variant: the elaborated name is not recorded in the tools map
TryValidateClangTool_NoMapping(config, m, t, tool_elaborated, env_vars, out) ==
    LET elaborated == IF tool_elaborated.some THEN tool_elaborated.val ELSE t
        v == [tools |-> EmptyMap,
              env_vars |-> env_vars]
    IN  IF out.io # "ok" THEN Err(IoErrorMessage(out))
        ELSE IF out.success
        THEN IF m.some
             THEN IF ~out.utf8 THEN Err(FromUtf8ErrorMessage)
                  ELSE LET version == Captures(m.val, out.stdout)
                       IN  IF version.some
                           THEN IF StartsWith(version.val, config.clang.version)
                                THEN Ok(v)
                                ELSE Err(VersionMismatchMessage(config, t, version.val))
                           ELSE Err(NotOfficialMessage(t))
             ELSE Ok(v)
        ELSE Err(NonZeroExitMessage(t))

\* variant: the output is decoded whether or not there is a pattern
TryValidateClangTool_AlwaysDecodes(config, m, t, tool_elaborated, env_vars, out) ==
    LET elaborated == IF tool_elaborated.some THEN tool_elaborated.val ELSE t
        v == [tools |-> IF elaborated # t THEN (t :> elaborated) ELSE EmptyMap,
              env_vars |-> env_vars]
    IN  IF out.io # "ok" THEN Err(IoErrorMessage(out))
        ELSE IF out.success
        THEN IF ~out.utf8 THEN Err(FromUtf8ErrorMessage)
             ELSE IF m.some
             THEN      LET version == Captures(m.val, out.stdout)
                       IN  IF version.some
                           THEN IF StartsWith(version.val, config.clang.version)
                                THEN Ok(v)
                                ELSE Err(VersionMismatchMessage(config, t, version.val))
                           ELSE Err(NotOfficialMessage(t))
             ELSE Ok(v)
        ELSE Err(NonZeroExitMessage(t))

\* variant: the overlay does not carry the environment of the probe
TryValidateClangTool_DropsEnv(config, m, t, tool_elaborated, env_vars, out) ==
    LET elaborated == IF tool_elaborated.some THEN tool_elaborated.val ELSE t
        v == [tools |-> IF elaborated # t THEN (t :> elaborated) ELSE EmptyMap,
              env_vars |-> EmptyMap]
    IN  IF out.io # "ok" THEN Err(IoErrorMessage(out))
        ELSE IF out.success
        THEN IF m.some
             THEN IF ~out.utf8 THEN Err(FromUtf8ErrorMessage)
                  ELSE LET version == Captures(m.val, out.stdout)
                       IN  IF version.some
                           THEN IF StartsWith(version.val, config.clang.version)
                                THEN Ok(v)
                                ELSE Err(VersionMismatchMessage(config, t, version.val))
                           ELSE Err(NotOfficialMessage(t))
             ELSE Ok(v)
        ELSE Err(NonZeroExitMessage(t))

\* variant: the name probed is recorded in the tools map whatever it is
TryValidateClangTool_AlwaysMaps(config, m, t, tool_elaborated, env_vars, out) ==
    LET elaborated == IF tool_elaborated.some THEN tool_elaborated.val ELSE t
        v == [tools |-> (t :> elaborated),
              env_vars |-> env_vars]
    IN  IF out.io # "ok" THEN Err(IoErrorMessage(out))
        ELSE IF out.success
        THEN IF m.some
             THEN IF ~out.utf8 THEN Err(FromUtf8ErrorMessage)
                  ELSE LET version == Captures(m.val, out.stdout)
                       IN  IF version.some
                           THEN IF StartsWith(version.val, config.clang.version)
                                THEN Ok(v)
                                ELSE Err(VersionMismatchMessage(config, t, version.val))
                           ELSE Err(NotOfficialMessage(t))
             ELSE Ok(v)
        ELSE Err(NonZeroExitMessage(t))

\* (a backtick of a message of the source is written ' here)
\* try_validate_clang_tool, given what the spawned candidate did (out)
TryValidateClangTool(config, m, t, tool_elaborated, env_vars, out) ==
    LET elaborated == IF tool_elaborated.some THEN tool_elaborated.val ELSE t
        v == [tools |-> IF elaborated # t THEN (t :> elaborated) ELSE EmptyMap,
              env_vars |-> env_vars]
    IN  IF out.io # "ok" THEN Err(IoErrorMessage(out))
        ELSE IF out.success
        THEN IF m.some
             THEN IF ~out.utf8 THEN Err(FromUtf8ErrorMessage)
                  ELSE LET version == Captures(m.val, out.stdout)
                       IN  IF version.some
                           THEN IF StartsWith(version.val, config.clang.version)
                                THEN Ok(v)
                                ELSE Err(VersionMismatchMessage(config, t, version.val))
                           ELSE Err(NotOfficialMessage(t))
             ELSE Ok(v)
        ELSE Err(NonZeroExitMessage(t))

\* the subprocess a candidate's probe spawns
Child(program, args, env_vars) ==
    [program |-> program, args |-> args, env |-> env_vars]

CouldNotValidateMessage(t) == "could not validate tool: '" \o t \o "'"
UnrecognizedToolMessage(t) == "unrecognized tool: '" \o t \o "'"

---------------------------------------------------------------------------
(* Configurations, environments and entry points of the model *)

ClangTools == {"clang", "clang++", "clangd", "clang-format", "clang-tidy"}
CargoComponents == {"cargo-clippy", "cargo-fmt", "cargo-miri"}
CargoTools == {"cargo-tarpaulin", "cargo-udeps", "cargo-valgrind"}
OtherTools == {"cmake", "ninja"}

\* identifiers handed to validate_tool: the ones it matches on, and others
ToolIds ==
    ClangTools \cup CargoComponents \cup CargoTools \cup OtherTools
        \cup {"run-clang-tidy", "cargo-doc", "frobnicate"}

NightlyToolchain == "nightly-2024-01-01"

PartialMaps(keys, values) == UNION {[d -> values] : d \in SUBSET keys}

StripPrefix(s, prefix) ==
    IF StartsWith(s, prefix) THEN SubSeq(s, Len(prefix) + 1, Len(s)) ELSE s

\* validate_cargo_component: the component a cargo subcommand belongs to
ComponentName(t) ==
    LET sub == StripPrefix(t, "cargo-") IN IF sub = "doc" THEN "rustdoc" ELSE sub

\* the tools validate_tool resolves through validate_clang_tool for tool t
ChainTools(t) ==
    IF t = "clang-tidy" THEN {"clang-tidy", "run-clang-tidy"}
    ELSE IF t \in ClangTools THEN {t} ELSE {}

\* a Config: the fields of config/xtask.rs that validation reads
Config(m, sfx, version, c) ==
    [clang |-> [matchers |-> m,
                platform |-> [macos |-> [search_paths |-> <<"homebrew">>]],
                suffix |-> sfx,
                version |-> version],
     rust |-> [components |-> c, toolchain |-> [nightly |-> NightlyToolchain]]]

\* the configurations in which tool t is validated; entries of the matcher
\* and component maps for other tools are never read and are left out
Configs(t) ==
    {Config(m, sfx, "16", c) :
        m \in PartialMaps(ChainTools(t), {ClangVersionPattern, InvalidPattern}),
        sfx \in {"-16", ""},
        c \in PartialMaps({ComponentName(t)} \cap {"clippy", "fmt", "miri", "rustdoc"},
                          {[toolchain |-> "nightly"], [toolchain |-> "stable"]})}

\* PATH values of the modelled process environments: one entry, two entries
\* out of PathBuf order, and one entry twice
PathValues ==
    {JoinPaths(entries) : entries \in
        {<<"/bin">>, <<"/usr/bin", "/bin">>, <<"/bin", "/bin">>}}

ProcEnvs ==
    {("HOME" :> "/root")} \cup {("HOME" :> "/root") @@ ("PATH" :> p) : p \in PathValues}

\* command-line shapes of a task command
ArgShapes == {"run", "--help", "unexpected"}

Calls ==
    {[cmd |-> "validate_tool", arg |-> t, args |-> "run"] : t \in ToolIds}
    \cup {[cmd |-> "validate_rust_toolchain", arg |-> c, args |-> "run"] :
            c \in {NightlyToolchain, "nightly", "beta"}}
    \cup {[cmd |-> "clang", arg |-> sub, args |-> a] :
            sub \in {"", "format", "tidy", "check"}, a \in ArgShapes}
    \cup {[cmd |-> c, arg |-> "", args |-> a] :
            c \in {"clippy", "doc", "udeps"}, a \in ArgShapes}

\* the identifier a call hands to validate_tool
CallTool(c) ==
    CASE c.cmd = "validate_tool" -> c.arg
      [] c.cmd = "clang" -> "clang-" \o c.arg
      [] c.cmd = "clippy" -> "cargo-clippy"
      [] c.cmd = "doc" -> "cargo-doc"
      [] c.cmd = "udeps" -> "cargo-udeps"
      [] OTHER -> ""

EntryPc(c) ==
    CASE c.cmd = "validate_tool" -> "validate_tool"
      [] c.cmd = "validate_rust_toolchain" -> "validate_rust_toolchain"
      [] OTHER -> "command"

NoInput == <<>>

Init ==
    /\ call \in Calls
    /\ input = NoInput
    /\ cfg \in Configs(CallTool(call))
    /\ target_os \in {"linux", "macos"}
    /\ procEnv \in ProcEnvs
    /\ pc = EntryPc(call)
    /\ tool = IF call.cmd = "validate_tool" THEN call.arg ELSE ""
    /\ chainTool = ""
    /\ matcher = None
    /\ world = NoWorld
    /\ validation = ValidationDefault
    /\ retry = TRUE
    /\ tried = <<>>
    /\ spawned = <<>>
    /\ fetched = <<>>
    /\ checked = <<>>
    /\ clangResult = Pending
    /\ toolchainResult = Pending
    /\ toolResult = Pending
    /\ result = Pending

\* what no step of the program writes
fixed == <<cfg, target_os, procEnv, call, input>>

---------------------------------------------------------------------------
(* validate_tool and what it calls *)

Spawn(child) == spawned' = Append(spawned, child)

\* variant: a command goes on to its task whatever validate_tool returned
ValidateToolReturns_GoesOn(r) ==
    /\ toolResult' = r
    /\ IF call.cmd = "validate_tool"
       THEN pc' = "done" /\ result' = r /\ UNCHANGED <<matcher, world>>
       ELSE /\ matcher' = None
            /\ world' = NoWorld
            /\ pc' = "task" /\ result' = result

\* validate_tool returns r to its caller: the caller of the library entry
\* point, or the task command, whose '?' returns an error at once.  The
\* locals of validate_clang_tool (the compiled matcher, the binaries it looked
\* at) are gone when a task command goes on.
ValidateToolReturns(r) ==
    /\ toolResult' = r
    /\ IF call.cmd = "validate_tool"
       THEN pc' = "done" /\ result' = r /\ UNCHANGED <<matcher, world>>
       ELSE /\ matcher' = None
            /\ world' = NoWorld
            /\ IF r.ok THEN pc' = "task" /\ result' = result
               ELSE pc' = "done" /\ result' = Err(r.err)

\* variant: clang-format is done when its clang-family resolution is
ClangToolReturns_SkipsCompanions(r) ==
    /\ clangResult' = r
    /\ IF ~r.ok
       THEN /\ ValidateToolReturns(r)
            /\ UNCHANGED <<validation, chainTool, retry>>
       ELSE LET combined == Combine(validation, r.val)
            IN  /\ validation' = combined
                /\ CASE FALSE ->
                           /\ pc' = "validate_python3"
                           /\ matcher' = None
                           /\ world' = NoWorld
                           /\ UNCHANGED <<chainTool, retry, toolResult, result>>
                     [] tool = "clang-tidy" /\ chainTool = "clang-tidy" ->
                           /\ pc' = "validate_clang_tool"
                           /\ chainTool' = "run-clang-tidy"
                           /\ matcher' = None
                           /\ world' = NoWorld
                           /\ UNCHANGED <<retry, toolResult, result>>
                     [] OTHER ->
                           /\ ValidateToolReturns(Ok(combined))
                           /\ UNCHANGED <<chainTool, retry>>

\* validate_clang_tool returns r into its match arm of validate_tool, which
\* returns an error at once ('?'), combines an overlay and goes on
ClangToolReturns(r) ==
    /\ clangResult' = r
    /\ IF ~r.ok
       THEN /\ ValidateToolReturns(r)
            /\ UNCHANGED <<validation, chainTool, retry>>
       ELSE LET combined == Combine(validation, r.val)
            IN  /\ validation' = combined
                /\ CASE tool = "clang-format" ->
                           /\ pc' = "validate_python3"
                           /\ matcher' = None
                           /\ world' = NoWorld
                           /\ UNCHANGED <<chainTool, retry, toolResult, result>>
                     [] tool = "clang-tidy" /\ chainTool = "clang-tidy" ->
                           /\ pc' = "validate_clang_tool"
                           /\ chainTool' = "run-clang-tidy"
                           /\ matcher' = None
                           /\ world' = NoWorld
                           /\ UNCHANGED <<retry, toolResult, result>>
                     [] OTHER ->
                           /\ ValidateToolReturns(Ok(combined))
                           /\ UNCHANGED <<chainTool, retry>>

\* variant: an unrecognised identifier validates to the empty overlay
ValidateTool_Lenient ==
    /\ pc = "validate_tool"
    /\ UNCHANGED <<fixed, tool, tried, spawned, fetched, checked, clangResult,
                   toolchainResult, retry>>
    /\ validation' = ValidationDefault
    /\ CASE tool \in ClangTools ->
                /\ pc' = "validate_clang_tool"
                /\ chainTool' = tool
                /\ UNCHANGED <<matcher, world, toolResult, result>>
         [] tool \in CargoComponents ->
                /\ pc' = "validate_cargo_component"
                /\ UNCHANGED <<chainTool, matcher, world, toolResult, result>>
         [] tool \in CargoTools ->
                /\ pc' = "validate_cargo_tool"
                /\ UNCHANGED <<chainTool, matcher, world, toolResult, result>>
         [] tool \in OtherTools ->
                /\ pc' = "validate_other_tool"
                /\ UNCHANGED <<chainTool, matcher, world, toolResult, result>>
         [] OTHER ->
                /\ ValidateToolReturns(Ok(ValidationDefault))
                /\ UNCHANGED chainTool

\* validate_tool: the match on the identifier, up to the first call of an arm
ValidateTool ==
    /\ pc = "validate_tool"
    /\ UNCHANGED <<fixed, tool, tried, spawned, fetched, checked, clangResult,
                   toolchainResult, retry>>
    /\ validation' = ValidationDefault
    /\ CASE tool \in ClangTools ->
                /\ pc' = "validate_clang_tool"
                /\ chainTool' = tool
                /\ UNCHANGED <<matcher, world, toolResult, result>>
         [] tool \in CargoComponents ->
                /\ pc' = "validate_cargo_component"
                /\ UNCHANGED <<chainTool, matcher, world, toolResult, result>>
         [] tool \in CargoTools ->
                /\ pc' = "validate_cargo_tool"
                /\ UNCHANGED <<chainTool, matcher, world, toolResult, result>>
         [] tool \in OtherTools ->
                /\ pc' = "validate_other_tool"
                /\ UNCHANGED <<chainTool, matcher, world, toolResult, result>>
         [] OTHER ->
                /\ ValidateToolReturns(Err(UnrecognizedToolMessage(tool)))
                /\ UNCHANGED chainTool

\* validate_clang_tool: the matcher is compiled before any candidate is tried
ValidateClangTool ==
    /\ pc = "validate_clang_tool"
    /\ UNCHANGED <<fixed, tool, spawned, fetched, checked, toolchainResult>>
    /\ tried' = <<>>
    /\ LET m == CompileMatcher(cfg, chainTool)
       IN  IF m.ok
           THEN /\ matcher' = m.val
                /\ world' \in Worlds(cfg, chainTool)
                /\ pc' = "check_suffix"
                /\ UNCHANGED <<validation, chainTool, retry, clangResult,
                               toolResult, result>>
           ELSE ClangToolReturns(Err(m.err))

\* variant: a failed candidate's error is returned instead of dropped
TryCandidate_Propagates(tool_elaborated, env_vars, next) ==
    LET program == IF tool_elaborated.some THEN tool_elaborated.val ELSE chainTool
        out == Probe(world, procEnv, program, env_vars)
        r == TryValidateClangTool(cfg, matcher, chainTool, tool_elaborated, env_vars, out)
    IN  /\ Spawn(Child(program, <<ProbeArg(matcher)>>, env_vars))
        /\ tried' = Append(tried, r)
        /\ ClangToolReturns(r)

\* one block of validate_clang_tool: the candidate is probed, its Ok is
\* returned, its Err is dropped and the next block (or the final Err) follows
TryCandidate(tool_elaborated, env_vars, next) ==
    LET program == IF tool_elaborated.some THEN tool_elaborated.val ELSE chainTool
        out == Probe(world, procEnv, program, env_vars)
        r == TryValidateClangTool(cfg, matcher, chainTool, tool_elaborated, env_vars, out)
    IN  /\ Spawn(Child(program, <<ProbeArg(matcher)>>, env_vars))
        /\ tried' = Append(tried, r)
        /\ IF r.ok THEN ClangToolReturns(r)
           ELSE IF next = "" THEN ClangToolReturns(Err(CouldNotValidateMessage(chainTool)))
           ELSE /\ pc' = next
                /\ UNCHANGED <<validation, chainTool, retry, matcher, world,
                               clangResult, toolResult, result>>

\* a block whose search path cannot be built returns that error ('?')
TryCandidateInSearchPaths(tool_elaborated, next) ==
    LET path == SearchPath(cfg, target_os, procEnv)
    IN  IF path.ok THEN TryCandidate(tool_elaborated, ("PATH" :> path.val), next)
        ELSE /\ ClangToolReturns(Err(path.err))
             /\ UNCHANGED <<spawned, tried>>

chainFrame == <<fixed, tool, fetched, checked, toolchainResult>>

\* variant: the first block probes the bare name
CheckSuffix_BareFirst ==
    /\ pc = "check_suffix"
    /\ TryCandidate(None, EmptyMap, "check_suffix_in_search_paths")
    /\ UNCHANGED chainFrame

\* check 'tool' with suffix
CheckSuffix ==
    /\ pc = "check_suffix"
    /\ TryCandidate(Some(Elaborated(cfg, chainTool)), EmptyMap, "check_suffix_in_search_paths")
    /\ UNCHANGED chainFrame

\* variant: the search path is exported into the process environment
CheckSuffixInSearchPaths_Exports ==
    /\ pc = "check_suffix_in_search_paths"
    /\ procEnv' = Extend(procEnv, ("PATH" :> SearchPath(cfg, target_os, procEnv).val))
    /\ TryCandidateInSearchPaths(Some(Elaborated(cfg, chainTool)), "check_no_suffix")
    /\ UNCHANGED <<cfg, target_os, call, input, tool, fetched, checked, toolchainResult>>

\* check 'tool' with suffix in search paths
CheckSuffixInSearchPaths ==
    /\ pc = "check_suffix_in_search_paths"
    /\ TryCandidateInSearchPaths(Some(Elaborated(cfg, chainTool)), "check_no_suffix")
    /\ UNCHANGED chainFrame

\* check 'tool' with no suffix
CheckNoSuffix ==
    /\ pc = "check_no_suffix"
    /\ TryCandidate(None, EmptyMap, "check_no_suffix_in_search_paths")
    /\ UNCHANGED chainFrame

\* check 'tool' with no suffix in search paths
CheckNoSuffixInSearchPaths ==
    /\ pc = "check_no_suffix_in_search_paths"
    /\ TryCandidateInSearchPaths(None, "")
    /\ UNCHANGED chainFrame

---------------------------------------------------------------------------
(* Single-probe validations *)

\* what a program probed once, or a task, may do
SimpleBehaviours == {NotFound, IoError("PermissionDenied"), ExitNonZero, ExitZero}

NotInPathMessage(t) == "could not find '" \o t \o "' in path"

\* Command::status mapped by the closure of validate_cargo_tool,
\* validate_other_tool and validate_python3, then the exit status check
StatusResult(t, out) ==
    IF out.io = "NotFound" THEN Err(NotInPathMessage(t))
    ELSE IF out.io # "ok" THEN Err(IoErrorMessage(out))
    ELSE IF ~out.success THEN Err(NonZeroExitMessage(t))
    ELSE Ok(Unit)

\* crate::config::rust::toolchain::{nightly, stable}
Nightly(config) == config.rust.toolchain.nightly
Stable(config) == "stable"

ComponentToolchain(config, component_name) ==
    IF config.rust.components[component_name].toolchain = "nightly"
    THEN Nightly(config) ELSE Stable(config)

\* validate_cargo_component after its probe did out
CargoComponentResult(toolchain, sub, out) ==
    IF out.io # "ok" THEN Err(IoErrorMessage(out))
    ELSE IF ~out.success
    THEN Err("'cargo +" \o toolchain \o " " \o sub \o " --help' failed with non-zero exit code")
    ELSE Ok(Unit)

UnrecognizedComponentMessage(sub) == "unrecognized component: '" \o sub \o "'"

\* a validation of validate_tool whose '?' returns its error, and whose
\* success ends the match arm: validate_tool returns Ok(validation)
ArmReturns(r) ==
    ValidateToolReturns(IF r.ok THEN Ok(validation) ELSE r)

armFrame == <<fixed, tool, chainTool, validation, retry, tried, fetched, checked,
              clangResult, toolchainResult>>

ValidateCargoComponent ==
    /\ pc = "validate_cargo_component"
    /\ UNCHANGED armFrame
    /\ LET sub == StripPrefix(tool, "cargo-")
           component_name == ComponentName(tool)
       IN  IF component_name \in DOMAIN cfg.rust.components
           THEN LET toolchain == ComponentToolchain(cfg, component_name)
                IN  \E out \in SimpleBehaviours :
                        /\ Spawn(Child("cargo", <<"+" \o toolchain, sub, "--help">>, EmptyMap))
                        /\ ArmReturns(CargoComponentResult(toolchain, sub, out))
           ELSE /\ UNCHANGED spawned
                /\ ArmReturns(Err(UnrecognizedComponentMessage(sub)))

ValidateCargoTool ==
    /\ pc = "validate_cargo_tool"
    /\ UNCHANGED armFrame
    /\ \E out \in SimpleBehaviours :
          /\ Spawn(Child(tool, <<"--help">>, EmptyMap))
          /\ ArmReturns(StatusResult(tool, out))

ValidateOtherTool ==
    /\ pc = "validate_other_tool"
    /\ UNCHANGED armFrame
    /\ \E out \in SimpleBehaviours :
          /\ Spawn(Child(tool, <<IF tool = "ninja" THEN "--version" ELSE "--help">>,
                         validation.env_vars))
          /\ ArmReturns(StatusResult(tool, out))

---------------------------------------------------------------------------
(* The companions of clang-format: python3 and run-clang-format.py *)

ScriptPath == "xtask-bin/run-clang-format.py"
ScriptUrl ==
    "https://raw.githubusercontent.com/Sarcasm/run-clang-format/master/run-clang-format.py"

ValidatePython3 ==
    /\ pc = "validate_python3"
    /\ UNCHANGED <<fixed, tool, chainTool, validation, tried, fetched, checked,
                   clangResult, toolchainResult>>
    /\ \E out \in SimpleBehaviours :
          LET r == StatusResult("python3", out)
          IN  /\ Spawn(Child("python3", <<"--help">>, EmptyMap))
              /\ IF r.ok
                 THEN /\ pc' = "validate_xtask_bin"
                      /\ retry' = TRUE
                      /\ UNCHANGED <<matcher, world, toolResult, result>>
                 ELSE /\ ValidateToolReturns(r)
                      /\ UNCHANGED retry

\* validate_xtask_bin: the check of the script; a failed check asks for a fetch
ValidateXtaskBin ==
    /\ pc = "validate_xtask_bin"
    /\ UNCHANGED <<fixed, tool, chainTool, validation, retry, tried, fetched,
                   clangResult, toolchainResult>>
    /\ \E out \in SimpleBehaviours :
          /\ Spawn(Child("python3", <<ScriptPath, "--help">>, EmptyMap))
          /\ checked' = Append(checked, out)
          /\ IF out.io # "ok" THEN ValidateToolReturns(Err(IoErrorMessage(out)))
             ELSE IF out.success THEN ValidateToolReturns(Ok(validation))
             ELSE /\ pc' = "fetch_xtask_bin"
                  /\ UNCHANGED <<matcher, world, toolResult, result>>

\* variant: the check is run again after every successful fetch
FetchXtaskBin_RetriesAgain ==
    /\ pc = "fetch_xtask_bin"
    /\ UNCHANGED <<fixed, tool, chainTool, validation, tried, spawned,
                   clangResult, toolchainResult>>
    /\ fetched' = Append(fetched, ScriptUrl)
    /\ UNCHANGED checked
    /\ \E ok \in BOOLEAN :
          IF ~ok
          THEN /\ ValidateToolReturns(Err("could not fetch run-clang-format.py"))
               /\ UNCHANGED retry
          ELSE IF TRUE
          THEN /\ retry' = retry
               /\ pc' = "validate_xtask_bin"
               /\ UNCHANGED <<matcher, world, toolResult, result>>
          ELSE /\ ValidateToolReturns(Ok(validation))
               /\ UNCHANGED retry

\* validate_xtask_bin after a failed check: crate::install::fetch_xtask_bin,
\* then the check once more if 'retry' is set
FetchXtaskBin ==
    /\ pc = "fetch_xtask_bin"
    /\ UNCHANGED <<fixed, tool, chainTool, validation, tried, spawned,
                   clangResult, toolchainResult>>
    /\ fetched' = Append(fetched, ScriptUrl)
    /\ UNCHANGED checked
    /\ \E ok \in BOOLEAN :
          IF ~ok
          THEN /\ ValidateToolReturns(Err("could not fetch run-clang-format.py"))
               /\ UNCHANGED retry
          ELSE IF retry
          THEN /\ retry' = FALSE
               /\ pc' = "validate_xtask_bin"
               /\ UNCHANGED <<matcher, world, toolResult, result>>
          ELSE /\ ValidateToolReturns(Ok(validation))
               /\ UNCHANGED retry

---------------------------------------------------------------------------
(* validate_rust_toolchain *)

\* variant: only the first line of the listing is looked at
Lines_FirstOnly(s) == SubSeq(Split(s, "\n"), 1, 1)

\* str::lines: the pieces between line feeds, without a last empty piece
Lines(s) ==
    LET pieces == Split(s, "\n")
    IN  IF pieces[Len(pieces)] = "" THEN SubSeq(pieces, 1, Len(pieces) - 1) ELSE pieces

RustupBehaviours ==
    {NotFound, ExitNonZero, Exited(TRUE, FALSE, "")}
        \cup {Exited(TRUE, TRUE, listing) : listing \in
                {"",
                 "stable-x86_64 (default)\n",
                 "stable-x86_64 (default)\nnightly-2024-01-01-x86_64\n",
                 "stable-x86_64 (default)\nnightly-2023-06-30-x86_64\n"}}

ToolchainNotFoundMessage(toolchain) ==
    "could not find toolchain '" \o toolchain
        \o "'\nPerhaps you need to install it with 'rustup install toolchain "
        \o toolchain \o "'?"

\* validate_rust_toolchain after 'rustup toolchain list' did out
RustToolchainResult(toolchain, out) ==
    IF out.io # "ok" THEN Err(IoErrorMessage(out))
    ELSE IF out.success
    THEN IF ~out.utf8 THEN Err(FromUtf8ErrorMessage)
         ELSE IF \E i \in 1..Len(Lines(out.stdout)) :
                    StartsWith(Lines(out.stdout)[i], toolchain)
              THEN Ok(Unit)
              ELSE Err(ToolchainNotFoundMessage(toolchain))
    ELSE Err("'rustup toolchain list' failed with non-zero exit code")

ValidateRustToolchain ==
    /\ pc = "validate_rust_toolchain"
    /\ UNCHANGED <<fixed, chainTool, matcher, world, validation, retry, tried,
                   fetched, checked, clangResult, toolResult>>
    /\ \E out \in RustupBehaviours :
          LET toolchain == IF call.cmd = "validate_rust_toolchain"
                           THEN call.arg ELSE Nightly(cfg)
              r == RustToolchainResult(toolchain, out)
          IN  /\ Spawn(Child("rustup", <<"toolchain", "list">>, EmptyMap))
              /\ toolchainResult' = r
              /\ IF call.cmd = "validate_rust_toolchain"
                 THEN pc' = "done" /\ result' = r /\ tool' = tool
                 ELSE IF r.ok
                 THEN pc' = "validate_tool" /\ tool' = CallTool(call) /\ result' = result
                 ELSE pc' = "done" /\ result' = Err(r.err) /\ tool' = tool

---------------------------------------------------------------------------
(* Task commands: clang, clippy, doc, udeps *)

\* the head of a task command: help, the subcommand, unused arguments
Command ==
    /\ pc = "command"
    /\ UNCHANGED <<fixed, chainTool, matcher, world, validation, retry, tried,
                   spawned, fetched, checked, clangResult, toolchainResult, toolResult>>
    /\ IF call.args = "--help"
       THEN pc' = "done" /\ result' = Ok(None) /\ tool' = tool
       ELSE IF call.cmd = "clang" /\ call.arg = ""
       THEN /\ pc' = "done" /\ tool' = tool
            /\ result' = Err("expected a subcommand for 'xtask clang'")
       ELSE IF call.args = "unexpected"
       THEN pc' = "done" /\ result' = Err("unused arguments") /\ tool' = tool
       ELSE IF call.cmd = "clang"
       THEN pc' = "validate_tool" /\ tool' = CallTool(call) /\ result' = result
       ELSE pc' = "validate_rust_toolchain" /\ tool' = tool /\ result' = result

IsTidy == call.cmd = "clang" /\ call.arg = "tidy"

\* 'xtask clang tidy' runs the cmake command before its own subprocess
CmakeBuild ==
    /\ pc = "task"
    /\ IsTidy
    /\ pc' = "run_clang_tidy"
    /\ Spawn(Child("xtask", <<"cmake", "build">>, EmptyMap))
    /\ UNCHANGED <<fixed, tool, chainTool, matcher, world, validation, retry,
                   tried, fetched, checked, clangResult, toolchainResult, toolResult, result>>

\* the subprocess of the task, as each command builds it
TaskChild(c, config, env_vars) ==
    CASE c.cmd = "clang" /\ c.arg = "format" ->
            Child("python3", <<ScriptPath>>, env_vars)
      [] c.cmd = "clang" /\ c.arg = "tidy" ->
            Child("run-clang-tidy", <<>>, env_vars)
      [] c.cmd = "clippy" ->
            Child("cargo", <<"+" \o Nightly(config), "clippy", "--package", "xtask",
                             "--package", "cxx-auto", "--", "-D", "warnings">>, env_vars)
      [] c.cmd = "doc" ->
            Child("cargo", <<"+" \o Nightly(config), "doc">>, env_vars)
      [] c.cmd = "udeps" ->
            Child("cargo", <<"+" \o Nightly(config), "udeps", "--package", "xtask",
                             "--package", "cxx-auto">>, env_vars)

\* the task's subprocess is spawned and its exit status is the command's result
Task ==
    /\ \/ pc = "task" /\ ~IsTidy
       \/ pc = "run_clang_tidy"
    /\ pc' = "done"
    /\ UNCHANGED <<fixed, tool, chainTool, matcher, world, validation, retry,
                   tried, fetched, checked, clangResult, toolchainResult, toolResult>>
    /\ IF call.cmd = "clang" /\ call.arg \notin {"format", "tidy"}
       THEN /\ result' = Err("unrecognized clang subcommand '" \o call.arg \o "'")
            /\ UNCHANGED spawned
       ELSE \E out \in SimpleBehaviours :
               /\ Spawn(TaskChild(call, cfg, toolResult.val.env_vars))
               /\ result' = IF out.io # "ok" THEN Err(IoErrorMessage(out))
                            ELSE Ok(Some(out.success))

Next ==
    \/ ValidateTool
    \/ ValidateClangTool
    \/ CheckSuffix
    \/ CheckSuffixInSearchPaths
    \/ CheckNoSuffix
    \/ CheckNoSuffixInSearchPaths
    \/ ValidateCargoComponent
    \/ ValidateCargoTool
    \/ ValidateOtherTool
    \/ ValidatePython3
    \/ ValidateXtaskBin
    \/ FetchXtaskBin
    \/ ValidateRustToolchain
    \/ Command
    \/ CmakeBuild
    \/ Task

Spec == Init /\ [][Next]_vars

\* the program is one thread that runs until it returns: inside
\* validate_xtask_bin the check and the fetch that can be taken are taken
LiveSpec == Spec /\ WF_vars(ValidateXtaskBin) /\ WF_vars(FetchXtaskBin)

---------------------------------------------------------------------------
(* Functions applied on their own: try_validate_clang_tool on one candidate, *)
(* and Validation::combine on three overlays                                 *)

programState == <<target_os, procEnv, call, tool, chainTool, matcher, world,
                  validation, retry, tried, spawned, fetched, checked, clangResult,
                  toolchainResult, toolResult>>

Idle ==
    /\ target_os = "linux"
    /\ procEnv = ("HOME" :> "/root")
    /\ call = [cmd |-> "", arg |-> "", args |-> ""]
    /\ tool = ""
    /\ chainTool = ""
    /\ matcher = None
    /\ world = NoWorld
    /\ validation = ValidationDefault
    /\ retry = TRUE
    /\ tried = <<>>
    /\ spawned = <<>>
    /\ fetched = <<>>
    /\ checked = <<>>
    /\ clangResult = Pending
    /\ toolchainResult = Pending
    /\ toolResult = Pending
    /\ result = Pending

StdoutTexts ==
    {"", "clang version 16.0.3", "clang version 160.1", "clang version 15.9.0",
     "gcc (GCC) 13.2.0", "Apple clang version 16.0.3 (clang-1600.0.26)"}

TryOutputs ==
    {NotFound, ExitNonZero, Exited(FALSE, TRUE, "clang version 16.0.3"),
     Exited(TRUE, FALSE, "")}
        \cup {Exited(TRUE, TRUE, text) : text \in StdoutTexts}

TryInputs ==
    {[matcher |-> m, tool |-> t, tool_elaborated |-> e, env_vars |-> v, out |-> o] :
        m \in {None, Some(ClangVersionPattern)},
        t \in {"clang-format", "run-clang-tidy"},
        e \in {None, Some("clang-format-16")},
        v \in {EmptyMap, ("PATH" :> "/bin:/opt/homebrew/bin")},
        o \in TryOutputs}

InitTry ==
    /\ Idle
    /\ cfg \in {Config(EmptyMap, "-16", version, EmptyMap) : version \in {"16", "15.9", "17"}}
    /\ input \in TryInputs
    /\ pc = "try_validate_clang_tool"

ApplyTryValidateClangTool ==
    /\ pc = "try_validate_clang_tool"
    /\ pc' = "done"
    /\ result' = TryValidateClangTool(cfg, input.matcher, input.tool,
                                      input.tool_elaborated, input.env_vars, input.out)
    /\ UNCHANGED <<cfg, input, programState>>

SpecTry == InitTry /\ [][ApplyTryValidateClangTool]_vars

\* overlays over a few keys; the key B and the variable PATH take two values
OverlayTools ==
    {m \in PartialMaps({"A", "B", "C"}, {"1", "2", "3", "4"}) :
        /\ "A" \in DOMAIN m => m["A"] = "1"
        /\ "B" \in DOMAIN m => m["B"] \in {"2", "3"}
        /\ "C" \in DOMAIN m => m["C"] = "4"}

OverlayEnvVars == PartialMaps({"PATH"}, {"/bin", "/usr/bin"})

Overlays == [tools : OverlayTools, env_vars : OverlayEnvVars]

InitCombine ==
    /\ Idle
    /\ cfg = Config(EmptyMap, "", "16", EmptyMap)
    /\ input \in [x : Overlays, y : Overlays, z : Overlays]
    /\ pc = "combine"

\* x.combine(y), y.combine(z), and the two ways of combining all three
ApplyCombine ==
    /\ pc = "combine"
    /\ pc' = "done"
    /\ result' = Ok([xy |-> Combine(input.x, input.y),
                     yz |-> Combine(input.y, input.z),
                     left |-> Combine(Combine(input.x, input.y), input.z),
                     right |-> Combine(input.x, Combine(input.y, input.z))])
    /\ UNCHANGED <<cfg, input, programState>>

SpecCombine == InitCombine /\ [][ApplyCombine]_vars

\* validate_rust_toolchain on its own: the toolchain asked for and what
\* 'rustup toolchain list' did; the stdout of an output that is not UTF-8 is
\* its text without the offending bytes
ToolchainNames == {NightlyToolchain, "nightly", "nightly-2023", "stable", "beta"}

ToolchainOutputs ==
    RustupBehaviours
        \cup {IoError("PermissionDenied"),
              Exited(FALSE, TRUE, "stable-x86_64 (default)\nnightly-2024-01-01-x86_64\n"),
              Exited(TRUE, FALSE, "stable-x86_64 (default)\nnightly-2024-01-01-x86_64\n"),
              Exited(TRUE, TRUE, "nightly-2024-01-01-x86_64"),
              Exited(TRUE, TRUE, "beta-x86_64\nstable-x86_64 (default)\n")}

InitToolchain ==
    /\ Idle
    /\ cfg = Config(EmptyMap, "", "16", EmptyMap)
    /\ input \in [toolchain : ToolchainNames, out : ToolchainOutputs]
    /\ pc = "rust_toolchain_result"

ApplyRustToolchainResult ==
    /\ pc = "rust_toolchain_result"
    /\ pc' = "done"
    /\ result' = RustToolchainResult(input.toolchain, input.out)
    /\ UNCHANGED <<cfg, input, programState>>

SpecToolchain == InitToolchain /\ [][ApplyRustToolchainResult]_vars

---------------------------------------------------------------------------
(* Properties of the clang-family fallback chain *)

CandidatePcs ==
    <<"check_suffix", "check_suffix_in_search_paths",
      "check_no_suffix", "check_no_suffix_in_search_paths">>

InChain(p) == \E k \in 1..4 : p = CandidatePcs[k]

Contains(s, sub) ==
    \E i \in 1..(Len(s) - Len(sub) + 1) : SubSeq(s, i, i + Len(sub) - 1) = sub

\* the last n subprocesses of a log
LastSpawned(log, n) == SubSeq(log, Len(log) - n + 1, Len(log))

\* C1: a step of the fallback chain of a logical name spawns exactly one
\* probe, the n-th block spawns the n-th probe, the probes so far are
\* (1) name+suffix without environment, (2) name+suffix with a PATH overlay,
\* (3) the bare name without environment, (4) the bare name with a PATH
\* overlay, in this order; every candidate before the one just probed had
\* failed, a success ends the chain, and there are at most four probes.
C1_ProbeOrder ==
    [][InChain(pc) =>
        LET n == Len(tried')
            probes == LastSpawned(spawned', n)
        IN  /\ n \in 1..4
            /\ pc = CandidatePcs[n]
            /\ Len(spawned') = Len(spawned) + 1
            /\ \A j \in 1..n :
                  /\ probes[j].program =
                        IF j \in {1, 2} THEN chainTool \o cfg.clang.suffix ELSE chainTool
                  /\ DOMAIN probes[j].env = IF j \in {2, 4} THEN {"PATH"} ELSE {}
            /\ \A j \in 1..(n - 1) : ~tried'[j].ok
            /\ tried'[n].ok => ~InChain(pc')
            /\ (~tried'[n].ok /\ n < 4) => pc' = CandidatePcs[n + 1]]_vars

\* C1 witness: a resolution that spawned all four probes, the fourth with
\* the bare name and a PATH overlay, and only the fourth succeeded
C1_Witness ==
    /\ pc = "done"
    /\ call.cmd = "validate_tool"
    /\ cfg.clang.suffix = "-16"
    /\ Len(tried) = 4
    /\ Len(spawned) = 4
    /\ tried[4].ok
    /\ spawned[1].program = tool \o "-16"
    /\ spawned[4].program = tool
    /\ "PATH" \in DOMAIN spawned[4].env

\* whether the candidate with this name and environment passes its probe and
\* its version check, taken on its own
WouldPass(tool_elaborated, env_vars) ==
    TryValidateClangTool(cfg, matcher, chainTool, tool_elaborated, env_vars,
        Probe(world, procEnv,
              IF tool_elaborated.some THEN tool_elaborated.val ELSE chainTool,
              env_vars)).ok

SearchPathOverlay == ("PATH" :> SearchPath(cfg, target_os, procEnv).val)

SuffixedPasses ==
    \/ WouldPass(Some(chainTool \o cfg.clang.suffix), EmptyMap)
    \/ WouldPass(Some(chainTool \o cfg.clang.suffix), SearchPathOverlay)

UnsuffixedPasses ==
    \/ WouldPass(None, EmptyMap)
    \/ WouldPass(None, SearchPathOverlay)

\* C2: when the suffixed and the unsuffixed binary (two binaries: the suffix
\* is not empty) are both there and each passes on its own, the resolution
\* returns the suffixed one: an overlay whose tools map is exactly
\* logical name -> suffixed name, which validate_tool then holds too.
C2_SuffixedPreferred ==
    [][(/\ InChain(pc) /\ ~InChain(pc')
        /\ cfg.clang.suffix # ""
        /\ SuffixedPasses /\ UnsuffixedPasses)
       => /\ clangResult'.ok
          /\ clangResult'.val.tools = (chainTool :> (chainTool \o cfg.clang.suffix))
          /\ chainTool \in DOMAIN validation'.tools
          /\ validation'.tools[chainTool] = chainTool \o cfg.clang.suffix]_vars

\* C2 witness: validate_tool("clang") returned with clang-16 and clang both
\* installed and both passing, and the overlay maps clang to clang-16
C2_Witness ==
    /\ pc = "done"
    /\ call.cmd = "validate_tool"
    /\ tool = "clang"
    /\ cfg.clang.suffix = "-16"
    /\ world # NoWorld
    /\ SuffixedPasses /\ UnsuffixedPasses
    /\ toolResult.ok
    /\ toolResult.val.tools = ("clang" :> "clang-16")

\* C3: a candidate other than the fourth that fails (not found, non-zero
\* exit, version mismatch, undecodable output) is followed by the next
\* candidate and nothing is returned; when the fourth fails too, the
\* resolution and validate_tool return "could not validate tool: '<name>'"
\* for the logical name of the chain.
C3_FallThrough ==
    [][\A k \in 1..4 :
        (pc = CandidatePcs[k] /\ Len(tried') = k /\ ~tried'[k].ok)
        => IF k < 4
           THEN /\ pc' = CandidatePcs[k + 1]
                /\ clangResult' = clangResult
                /\ ~toolResult'.done
           ELSE /\ clangResult' = Err("could not validate tool: '" \o chainTool \o "'")
                /\ toolResult' = Err("could not validate tool: '" \o chainTool \o "'")
                /\ ~InChain(pc')]_vars

\* C3 witness: four candidates failed, for three different reasons (not in
\* the search path, undecodable output, version mismatch), and validate_tool
\* returned the error naming the tool
C3_Witness ==
    /\ pc = "done"
    /\ call.cmd = "validate_tool"
    /\ Len(tried) = 4
    /\ \A k \in 1..4 : ~tried[k].ok
    /\ tried[1].err = "io error: NotFound"
    /\ tried[2].err = FromUtf8ErrorMessage
    /\ Contains(tried[4].err, "expected version compatible with")
    /\ toolResult = Err("could not validate tool: 'clangd'")

\* C4: when the resolution of a clang-family tool fails after its fourth
\* candidate, the error validate_tool returns carries the failure of that
\* last candidate (so a version mismatch there is reported with the expected
\* and the actual version) and names the logical tool.
C4_LastFailureReported ==
    (/\ pc = "done"
     /\ call.cmd = "validate_tool"
     /\ Len(tried) = 4
     /\ ~tried[4].ok
     /\ toolResult.done /\ ~toolResult.ok)
    => /\ Contains(toolResult.err, tried[4].err)
       /\ Contains(toolResult.err, chainTool)

\* the identifiers validate_tool recognises
RecognizedTools ==
    {"clang", "clang++", "clangd", "clang-format", "clang-tidy",
     "cargo-clippy", "cargo-fmt", "cargo-miri",
     "cargo-tarpaulin", "cargo-udeps", "cargo-valgrind",
     "cmake", "ninja"}

\* C5: validate_tool on an identifier outside its recognised set returns
\* "unrecognized tool: '<identifier>'" in its first step and spawns nothing.
C5_UnrecognizedTool ==
    [][(pc = "validate_tool" /\ tool \notin RecognizedTools)
       => /\ toolResult'.done /\ ~toolResult'.ok
          /\ toolResult'.err = "unrecognized tool: '" \o tool \o "'"
          /\ result'.done /\ ~result'.ok /\ result'.err = toolResult'.err
          /\ spawned' = spawned
          /\ pc' = "done"]_vars

\* C5 witness: validate_tool("frobnicate") has returned its error and the
\* spawn log is empty
C5_Witness ==
    /\ pc = "done"
    /\ call.cmd = "validate_tool"
    /\ tool = "frobnicate"
    /\ result = Err("unrecognized tool: 'frobnicate'")
    /\ spawned = <<>>

---------------------------------------------------------------------------
(* Properties of one candidate's validation *)

\* the first capture group of the version pattern on each probe output that
\* the pattern matches
ExpectedCapture ==
    ("clang version 16.0.3" :> "16.0.3")
        @@ ("clang version 160.1" :> "160.1")
        @@ ("clang version 15.9.0" :> "15.9.0")
        @@ ("Apple clang version 16.0.3 (clang-1600.0.26)" :> "16.0.3")

\* p is a prefix of s, character by character
IsLexicalPrefix(p, s) ==
    /\ Len(p) <= Len(s)
    /\ \A i \in 1..Len(p) : SubSeq(s, i, i) = SubSeq(p, i, i)

\* C6: a candidate with a version pattern that matches its probe output is
\* accepted exactly when the captured text starts with the configured
\* version, as a plain prefix of characters; when rejected, its message
\* names the expected and the actual version.
C6_VersionPrefix ==
    (/\ pc = "done"
     /\ input.matcher.some
     /\ input.out.io = "ok" /\ input.out.success /\ input.out.utf8
     /\ input.out.stdout \in DOMAIN ExpectedCapture)
    => LET actual == ExpectedCapture[input.out.stdout]
       IN  /\ result.ok <=> IsLexicalPrefix(cfg.clang.version, actual)
           /\ ~result.ok =>
                 result.err = "'" \o input.tool
                     \o "' failed validation; expected version compatible with '"
                     \o cfg.clang.version \o "' but found '" \o actual \o "'"

\* C6 witness: with the configured version "16" the capture "160.1" has been
\* accepted
C6_Witness ==
    /\ pc = "done"
    /\ input.matcher.some
    /\ cfg.clang.version = "16"
    /\ input.out = Exited(TRUE, TRUE, "clang version 160.1")
    /\ result.ok

\* C7: without a version pattern a candidate whose probe exits with status
\* zero is accepted whatever its output is, decodable or not, and its
\* overlay carries the environment it was probed with.
C7_NoPatternAccepts ==
    (/\ pc = "done"
     /\ ~input.matcher.some
     /\ input.out.io = "ok" /\ input.out.success)
    => /\ result.ok
       /\ result.val.env_vars = input.env_vars

\* C7 witness: a probe without pattern that exited zero with output that is
\* not UTF-8 has been accepted
C7_Witness ==
    /\ pc = "done"
    /\ ~input.matcher.some
    /\ input.out = Exited(TRUE, FALSE, "")
    /\ result.ok

---------------------------------------------------------------------------
(* Properties of Validation::combine *)

\* r is the union of a and b by key, with b's value on a shared key
IsRightBiasedUnion(a, b, r) ==
    /\ DOMAIN r = DOMAIN a \cup DOMAIN b
    /\ \A k \in DOMAIN b : r[k] = b[k]
    /\ \A k \in DOMAIN a \ DOMAIN b : r[k] = a[k]

\* C8: combine is the key-wise union of both maps in which the argument
\* wins on a shared key and keys of one side only are kept; {A:1,B:2}
\* combined with {B:3,C:4} is {A:1,B:3,C:4}; (x+y)+z equals x+(y+z).
C8_CombineUnion ==
    pc = "done" =>
        /\ IsRightBiasedUnion(input.x.tools, input.y.tools, result.val.xy.tools)
        /\ IsRightBiasedUnion(input.x.env_vars, input.y.env_vars, result.val.xy.env_vars)
        /\ result.val.left = result.val.right
        /\ (/\ input.x.tools = ("A" :> "1") @@ ("B" :> "2")
            /\ input.y.tools = ("B" :> "3") @@ ("C" :> "4"))
           => result.val.xy.tools = ("A" :> "1") @@ ("B" :> "3") @@ ("C" :> "4")

\* C8 witness: {A:1,B:2} has been combined with {B:3,C:4}, and a PATH of the
\* argument has replaced a different PATH of the receiver
C8_Witness ==
    /\ pc = "done"
    /\ input.x.tools = ("A" :> "1") @@ ("B" :> "2")
    /\ input.y.tools = ("B" :> "3") @@ ("C" :> "4")
    /\ input.x.env_vars = ("PATH" :> "/bin")
    /\ input.y.env_vars = ("PATH" :> "/usr/bin")
    /\ result.val.xy.tools = ("A" :> "1") @@ ("B" :> "3") @@ ("C" :> "4")
    /\ result.val.xy.env_vars = ("PATH" :> "/usr/bin")

---------------------------------------------------------------------------
(* Properties of the environment and of the task commands *)

\* C9: no step of validate_tool, of validate_rust_toolchain or of a command
\* changes a variable of the process environment; a candidate probed in the
\* ambient environment is handed no PATH, so that an augmented PATH is only
\* in the overlay of the probe it was built for and in the returned overlay.
C9_ProcessEnvUntouched ==
    [][/\ procEnv' = procEnv
       /\ pc \in {"check_suffix", "check_no_suffix"}
            => spawned'[Len(spawned')].env = EmptyMap
       /\ \A i \in 1..Len(spawned) : spawned'[i] = spawned[i]]_vars

\* C9 witness: a resolution has returned an overlay with an augmented PATH
\* that it handed to a probe, and the PATH of the process is another value
C9_Witness ==
    /\ pc = "done"
    /\ call.cmd = "validate_tool"
    /\ "PATH" \in DOMAIN procEnv
    /\ toolResult.ok
    /\ "PATH" \in DOMAIN toolResult.val.env_vars
    /\ toolResult.val.env_vars["PATH"] # procEnv["PATH"]
    /\ spawned[Len(spawned)].env = toolResult.val.env_vars

IsTaskChild(child) == child = TaskChild(call, cfg, child.env)

TaskChildren == {i \in 1..Len(spawned) : IsTaskChild(spawned[i])}

TaskCommands == {"clang", "clippy", "doc", "udeps"}

\* C10: in a task command the subprocess of the task is in the spawn log
\* only when validate_tool, and before it validate_rust_toolchain in clippy,
\* doc and udeps, has returned success, and it is then the last subprocess
\* spawned; when a validation has failed the command is over with that
\* error, validate_tool is not called after a failed toolchain validation,
\* and the subprocess of the task is never spawned.
C10_ValidatedBeforeTask ==
    call.cmd \in TaskCommands =>
        /\ TaskChildren # {} =>
              /\ toolResult.ok
              /\ call.cmd # "clang" => toolchainResult.ok
              /\ TaskChildren = {Len(spawned)}
        /\ (toolResult.done /\ ~toolResult.ok) =>
              /\ pc = "done"
              /\ ~result.ok /\ result.err = toolResult.err
              /\ TaskChildren = {}
        /\ (toolchainResult.done /\ ~toolchainResult.ok) =>
              /\ pc = "done"
              /\ ~result.ok /\ result.err = toolchainResult.err
              /\ ~toolResult.done
              /\ TaskChildren = {}

\* C10 witness: 'xtask udeps' is over, both validations succeeded and the
\* last subprocess spawned is cargo +nightly udeps
C10_Witness ==
    /\ pc = "done"
    /\ call.cmd = "udeps"
    /\ toolchainResult.ok
    /\ toolResult.ok
    /\ Len(spawned) > 2
    /\ spawned[Len(spawned)].program = "cargo"
    /\ TaskChildren = {Len(spawned)}

---------------------------------------------------------------------------
(* Properties of the identifiers and of validate_rust_toolchain *)

\* the identifiers the task commands hand to validate_tool
TaskToolIds ==
    {"clang-format", "clang-tidy", "cargo-clippy", "cargo-doc", "cargo-udeps"}

\* C11: an identifier that a task command hands to validate_tool is handled
\* by a resolution branch of validate_tool: validate_tool never answers it
\* with "unrecognized tool", with which the command could not reach the
\* spawn of its task whatever the probes do.
C11_TaskToolsHandled ==
    (/\ call.cmd \in TaskCommands
     /\ tool \in TaskToolIds
     /\ toolResult.done)
    => ~(/\ ~toolResult.ok
         /\ toolResult.err = "unrecognized tool: '" \o tool \o "'")

\* the lines of each listing of toolchains
ListingLines ==
    ("" :> {})
        @@ ("stable-x86_64 (default)\n" :> {"stable-x86_64 (default)"})
        @@ ("stable-x86_64 (default)\nnightly-2024-01-01-x86_64\n" :>
                {"stable-x86_64 (default)", "nightly-2024-01-01-x86_64"})
        @@ ("stable-x86_64 (default)\nnightly-2023-06-30-x86_64\n" :>
                {"stable-x86_64 (default)", "nightly-2023-06-30-x86_64"})
        @@ ("nightly-2024-01-01-x86_64" :> {"nightly-2024-01-01-x86_64"})
        @@ ("beta-x86_64\nstable-x86_64 (default)\n" :>
                {"beta-x86_64", "stable-x86_64 (default)"})

SomeLineStartsWith(name, listing) ==
    \E line \in ListingLines[listing] : IsLexicalPrefix(name, line)

InstallHint(name) == "rustup install toolchain " \o name \o "'"

\* C12 as stated: success exactly when the listing exits zero and a line of
\* its output starts with the name; a listing that exits zero without such
\* a line fails with the install suggestion naming the name.
C12_ListedIffSuccess ==
    (pc = "done" /\ input.out.io = "ok") =>
        /\ result.ok <=>
              (input.out.success /\ SomeLineStartsWith(input.toolchain, input.out.stdout))
        /\ (input.out.success /\ ~SomeLineStartsWith(input.toolchain, input.out.stdout))
              => (~result.ok /\ Contains(result.err, InstallHint(input.toolchain)))

\* C12 amended: success exactly when the listing was spawned, exits zero,
\* its output is valid UTF-8 and a line of it starts with the name; a
\* listing that exits zero with valid UTF-8 output and no such line fails
\* with the install suggestion naming exactly the name; output that is not
\* valid UTF-8 fails with the decoding error, whatever lines it holds.
C12_ListedDecodedIffSuccess ==
    pc = "done" =>
        /\ result.ok <=>
              /\ input.out.io = "ok" /\ input.out.success /\ input.out.utf8
              /\ SomeLineStartsWith(input.toolchain, input.out.stdout)
        /\ (/\ input.out.io = "ok" /\ input.out.success /\ input.out.utf8
            /\ ~SomeLineStartsWith(input.toolchain, input.out.stdout))
              => /\ ~result.ok
                 /\ Contains(result.err, InstallHint(input.toolchain))
                 /\ \A other \in ToolchainNames \ {input.toolchain} :
                       ~Contains(result.err, InstallHint(other))
        /\ (input.out.io = "ok" /\ input.out.success /\ ~input.out.utf8)
              => (~result.ok /\ result.err = "invalid utf-8 sequence")

\* C12 witness: "nightly" has been accepted on the strength of the second
\* line of the listing, nightly-2023-06-30-x86_64
C12_Witness ==
    /\ pc = "done"
    /\ input.toolchain = "nightly"
    /\ input.out = Exited(TRUE, TRUE, "stable-x86_64 (default)\nnightly-2023-06-30-x86_64\n")
    /\ result.ok

---------------------------------------------------------------------------
(* Properties of the check of run-clang-format.py *)

\* the checks of the script among the subprocesses spawned
ScriptChecks ==
    {i \in 1..Len(spawned) :
        /\ spawned[i].program = "python3"
        /\ spawned[i].args = <<"xtask-bin/run-clang-format.py", "--help">>}

CheckFailed(out) == out.io = "ok" /\ ~out.success

\* C13: in validate_tool("clang-format") a check of the script that exits
\* non-zero is followed by the fetcher; after the first check a successful
\* fetch is followed by the check once more, after the second check it is
\* not; so the script is checked at most twice, a second check only after a
\* failed first one and a fetch; and once the script is being validated,
\* validate_tool returns.
C13_SingleRetry ==
    /\ [](/\ Len(checked) <= 2
          /\ Cardinality(ScriptChecks) = Len(checked)
          /\ Len(checked) = 2 => (CheckFailed(checked[1]) /\ Len(fetched) >= 1)
          /\ checked # <<>> => tool = "clang-format")
    /\ [][/\ (pc = "validate_xtask_bin" /\ CheckFailed(checked'[Len(checked')]))
              => pc' = "fetch_xtask_bin"
          /\ pc = "fetch_xtask_bin"
              => /\ fetched' = Append(fetched, "https://raw.githubusercontent.com/Sarcasm/run-clang-format/master/run-clang-format.py")
                 /\ Len(checked) = 2 => pc' # "validate_xtask_bin"
                 /\ (Len(checked) = 1 /\ ~toolResult'.done) => pc' = "validate_xtask_bin"]_vars
    /\ (pc = "validate_xtask_bin") ~> toolResult.done

\* C13 witness: the first check failed, the script was fetched once, the
\* second check exited zero and validate_tool("clang-format") returned Ok
C13_Witness ==
    /\ pc = "done"
    /\ call.cmd = "validate_tool"
    /\ tool = "clang-format"
    /\ Len(checked) = 2
    /\ CheckFailed(checked[1])
    /\ checked[2] = ExitZero
    /\ Len(fetched) = 1
    /\ Cardinality(ScriptChecks) = 2
    /\ toolResult.ok

\* C14: validate_tool("clang-format") returns success only when the last
\* check of the script that it ran exited zero.
C14_SuccessNeedsPassingCheck ==
    (/\ tool = "clang-format"
     /\ toolResult.done
     /\ toolResult.ok)
    => /\ checked # <<>>
       /\ checked[Len(checked)].io = "ok"
       /\ checked[Len(checked)].success

---------------------------------------------------------------------------
(* Properties of the overlay of a resolution *)

\* C15: on a platform other than macOS, with an ambient PATH, the PATH
\* handed to a candidate probed "in search paths" is the ambient PATH as it
\* is: the same entries, in the same order, as often.
C15_AmbientPathUnmodified ==
    (target_os # "macos" /\ "PATH" \in DOMAIN procEnv)
    => \A i \in 1..Len(spawned) :
          "PATH" \in DOMAIN spawned[i].env
              => spawned[i].env["PATH"] = procEnv["PATH"]

\* the directories of a PATH value
PathDirs(path) == Range(SplitPaths(path))

\* C16: a resolution that succeeds returns an overlay whose env_vars has
\* the key PATH exactly when the winner is candidate 2 or 4, and then it is
\* the only key and holds the augmented path handed to that probe (the
\* ambient directories, with the homebrew location on macOS when
\* configured); when candidate 1 or 3 wins, env_vars is empty.
C16_PathIffAugmentedWinner ==
    [][(InChain(pc) /\ ~InChain(pc') /\ clangResult'.ok)
       => LET n == Len(tried')
              env_vars == clangResult'.val.env_vars
              ambient == IF "PATH" \in DOMAIN procEnv
                         THEN PathDirs(procEnv["PATH"]) ELSE {}
          IN  /\ tried'[n].ok
              /\ "PATH" \in DOMAIN env_vars <=> n \in {2, 4}
              /\ n \in {1, 3} => env_vars = EmptyMap
              /\ n \in {2, 4} =>
                    /\ DOMAIN env_vars = {"PATH"}
                    /\ env_vars = spawned'[Len(spawned')].env
                    /\ ambient \subseteq PathDirs(env_vars["PATH"])
                    /\ target_os # "macos" => PathDirs(env_vars["PATH"]) \subseteq ambient
                    /\ (/\ target_os = "macos"
                        /\ cfg.clang.platform.macos.search_paths = <<"homebrew">>)
                          => "/opt/homebrew/bin" \in PathDirs(env_vars["PATH"])]_vars

\* C16 witness: on macOS the suffixed binary was found only through the
\* homebrew location (candidate 2) and the overlay returned holds that PATH
C16_Witness ==
    /\ pc = "done"
    /\ call.cmd = "validate_tool"
    /\ target_os = "macos"
    /\ Len(tried) = 2
    /\ toolResult.ok
    /\ DOMAIN toolResult.val.env_vars = {"PATH"}
    /\ "/opt/homebrew/bin" \in PathDirs(toolResult.val.env_vars["PATH"])
    /\ "PATH" \in DOMAIN procEnv
    /\ "/opt/homebrew/bin" \notin PathDirs(procEnv["PATH"])

\* C17: a resolution that succeeds returns an overlay whose tools map has
\* an entry for the logical name exactly when the binary of the winning
\* probe has another name, and the entry is that name; an unsuffixed winner
\* and an empty configured suffix give an empty tools map.
C17_ToolsIffRenamed ==
    [][(InChain(pc) /\ ~InChain(pc') /\ clangResult'.ok)
       => LET binary == spawned'[Len(spawned')].program
              tools == clangResult'.val.tools
          IN  /\ chainTool \in DOMAIN tools <=> binary # chainTool
              /\ binary # chainTool => tools = (chainTool :> binary)
              /\ binary = chainTool => tools = EmptyMap
              /\ (Len(tried') \in {3, 4} \/ cfg.clang.suffix = "") => tools = EmptyMap
              /\ (Len(tried') \in {1, 2} /\ cfg.clang.suffix # "")
                    => tools = (chainTool :> (chainTool \o cfg.clang.suffix))]_vars

\* C17 witness: with the suffix -16 configured the unsuffixed binary won as
\* candidate 3 and the tools map returned is empty
C17_Witness ==
    /\ pc = "done"
    /\ call.cmd = "validate_tool"
    /\ cfg.clang.suffix = "-16"
    /\ Len(tried) = 3
    /\ spawned[3].program = tool
    /\ toolResult.ok
    /\ toolResult.val.tools = EmptyMap

---------------------------------------------------------------------------
(* Properties of the validation of clang-format and of the task commands *)

\* the scenario: clang-format with suffix -16 and version 16, and the first
\* candidate, clang-format-16 --version in the ambient environment, passed
FormatScenario ==
    /\ tool = "clang-format"
    /\ cfg.clang.suffix = "-16"
    /\ cfg.clang.version = "16"
    /\ Len(tried) >= 1
    /\ tried[1].ok
    /\ spawned[1].program = "clang-format-16"
    /\ spawned[1].args = <<"--version">>
    /\ spawned[1].env = EmptyMap

FormatOverlay ==
    [tools |-> ("clang-format" :> "clang-format-16"), env_vars |-> EmptyMap]

Remapped(overlay, name) ==
    IF name \in DOMAIN overlay.tools THEN overlay.tools[name] ELSE name

\* C19: a task command that has spawned its task subprocess has set every
\* env_vars entry of validate_tool's overlay on it, and 'clang tidy' has
\* launched it under the name the overlay maps run-clang-tidy to.
C19_OverlayApplied ==
    (/\ call.cmd \in TaskCommands
     /\ pc = "done"
     /\ toolResult.ok
     /\ TaskChildren # {})
    => LET child == spawned[Len(spawned)]
       IN  /\ \A key \in DOMAIN toolResult.val.env_vars :
                 /\ key \in DOMAIN child.env
                 /\ child.env[key] = toolResult.val.env_vars[key]
           /\ (call.cmd = "clang" /\ call.arg = "tidy")
                 => child.program = Remapped(toolResult.val, "run-clang-tidy")

\* the tools validate_tool resolves by a single direct probe
DirectTools ==
    {"cargo-clippy", "cargo-fmt", "cargo-miri",
     "cargo-tarpaulin", "cargo-udeps", "cargo-valgrind",
     "cmake", "ninja"}

\* C20: validate_tool on a tool resolved by a single direct probe spawns at
\* most one subprocess, exactly one when it succeeds; a failure is "could
\* not find '<tool>' in path" for a binary missing from the search path, an
\* error with "failed with non-zero exit code" for a probe that exited
\* non-zero, "unrecognized component" with nothing spawned for a component
\* that is not configured, or another operating system error of the spawn;
\* a missing binary never surfaces as the bare error of the spawn.
C20_SingleProbeErrors ==
    (/\ call.cmd = "validate_tool"
     /\ tool \in DirectTools
     /\ pc = "done")
    => /\ Len(spawned) <= 1
       /\ toolResult.ok => Len(spawned) = 1
       /\ ~toolResult.ok =>
             /\ \/ toolResult.err = "could not find '" \o tool \o "' in path"
                \/ Contains(toolResult.err, "failed with non-zero exit code")
                \/ /\ Contains(toolResult.err, "unrecognized component")
                   /\ spawned = <<>>
                \/ toolResult.err = "io error: PermissionDenied"
             /\ Len(spawned) = 0 => Contains(toolResult.err, "unrecognized component")

====
